---------------------------- MODULE Spec2Model ----------------------------
(***************************************************************************)
(* Model of the request handlers of rearguarde/api/resources.py and the    *)
(* helpers of rearguarde/api/util.py.                                      *)
(*                                                                         *)
(* Representation.                                                         *)
(*   - A Python str is a tuple of one-character strings, so that int(),    *)
(*     truthiness and the parser's patterns are computed on the text.      *)
(*   - A parameter name is the tuple of its words between underscores:     *)
(*     'artist_id' is <<"artist","id">>, 'id' is <<"id">>.                 *)
(*   - A Python value is a record [t, v]: t is "str", "int", "date" or     *)
(*     "none".                                                             *)
(*   - A dict whose iteration order matters (the argument of               *)
(*     abort_on_invalid_parameters) is a sequence of [key, value] records; *)
(*     a dict whose order does not matter is a function on its keys.       *)
(*                                                                         *)
(* Library behaviour the handlers rest on.                                 *)
(*   - request.args gives one value for a key; dict(request.args) keeps    *)
(*     that value as a str.  A key given several times is not modelled.    *)
(*   - RequestParser.parse_args() is where a declared argument is          *)
(*     validated: it runs inside consolidate_parameters, converts the      *)
(*     arguments in declaration order without trimming them, aborts with   *)
(*     400 at the first value its type rejects, and returns None for an    *)
(*     argument the query string does not have.                            *)
(*   - inputs.date_from_iso8601 is modelled for the form YYYY-MM-DD only.  *)
(*   - get_objects is opaque: it returns a sequence of distinct records or *)
(*     raises.  An exception nobody catches ends the request.              *)
(***************************************************************************)
EXTENDS Integers, Sequences, FiniteSets, TLC

\* ------------------------------------------------------------------ bounds
\* most query-string keys in one request
MaxParams == 2
\* longest path identifier, in characters
MaxIdLen == 2
\* longest sequence a retrieval backend returns
MaxRecords == 2

\* ------------------------------------------------------------ python values
NoneValue == [t |-> "none", v |-> 0]
StrValue(s) == [t |-> "str", v |-> s]
IntValue(n) == [t |-> "int", v |-> n]
DateValue(s) == [t |-> "date", v |-> s]

\* bool(value), as the `if parameter_values[key]` of remove_empty_parameters
\* and the `if not morphed_args[...]` of the combined search evaluate it
Truthy(value) ==
    CASE value.t = "none" -> FALSE
      [] value.t = "str" -> Len(value.v) > 0
      [] value.t = "int" -> value.v # 0
      [] OTHER -> TRUE

Digits == {"0", "1", "2", "3", "4", "5", "6", "7", "8", "9"}

DigitValue(c) ==
    CASE c = "0" -> 0 [] c = "1" -> 1 [] c = "2" -> 2 [] c = "3" -> 3
      [] c = "4" -> 4 [] c = "5" -> 5 [] c = "6" -> 6 [] c = "7" -> 7
      [] c = "8" -> 8 [] c = "9" -> 9

\* str.strip(): leading and trailing blanks removed
RECURSIVE LStrip(_)
LStrip(s) == IF Len(s) > 0 /\ Head(s) = " " THEN LStrip(Tail(s)) ELSE s

RECURSIVE RStrip(_)
RStrip(s) ==
    IF Len(s) > 0 /\ s[Len(s)] = " " THEN RStrip(SubSeq(s, 1, Len(s) - 1)) ELSE s

Strip(s) == RStrip(LStrip(s))

RECURSIVE DecimalValue(_)
DecimalValue(s) ==
    IF Len(s) = 0 THEN 0
    ELSE 10 * DecimalValue(SubSeq(s, 1, Len(s) - 1)) + DigitValue(s[Len(s)])

AllDigits(s) == Len(s) > 0 /\ \A i \in 1..Len(s) : s[i] \in Digits

\* int(value): an int is returned as it is; a str is stripped, takes an
\* optional sign and must then be decimal digits (ValueError otherwise);
\* None is a TypeError
PyInt(value) ==
    CASE value.t = "int" -> [ok |-> TRUE, val |-> value.v, exc |-> ""]
      [] value.t = "str" ->
            LET s == Strip(value.v)
                signed == Len(s) > 0 /\ Head(s) \in {"-", "+"}
                body == IF signed THEN Tail(s) ELSE s
            IN  IF AllDigits(body)
                THEN [ok |-> TRUE,
                      val |-> IF signed /\ Head(s) = "-"
                              THEN 0 - DecimalValue(body) ELSE DecimalValue(body),
                      exc |-> ""]
                ELSE [ok |-> FALSE, val |-> 0, exc |-> "ValueError"]
      [] OTHER -> [ok |-> FALSE, val |-> 0, exc |-> "TypeError"]

\* ------------------------------------------------------------------ util.py
INVALID_PARAMS_STATUS_CODE == 400

\* key.endswith('_id')
EndsWithId(key) == Len(key) >= 2 /\ key[Len(key)] = "id"

\* f'Invalid {key}: {value}. {key} must be a positive integer'
InvalidMessage(key, value) ==
    <<"Invalid ", key, ": ", value, ". ", key, " must be a positive integer">>

\* the keyword arguments of api.abort: one entry for each key of the dict
AbortPayload(request_parameters) ==
    { [key |-> request_parameters[i].key,
       text |-> InvalidMessage(request_parameters[i].key, request_parameters[i].value)] :
      i \in 1..Len(request_parameters) }

\* the loop of abort_on_invalid_parameters from the i-th key on
RECURSIVE GuardFrom(_, _)
GuardFrom(request_parameters, i) ==
    IF i > Len(request_parameters) THEN [kind |-> "ok"]
    ELSE LET key == request_parameters[i].key
             parsed == PyInt(request_parameters[i].value)
         IN  IF ~EndsWithId(key) THEN GuardFrom(request_parameters, i + 1)
             ELSE IF ~parsed.ok THEN [kind |-> "raise", exc |-> parsed.exc]
             ELSE IF parsed.val < 1
                  THEN [kind |-> "abort", code |-> INVALID_PARAMS_STATUS_CODE,
                        message |-> "Input payload validation failed",
                        errors |-> AbortPayload(request_parameters)]
             ELSE GuardFrom(request_parameters, i + 1)

abort_on_invalid_parameters(request_parameters) == GuardFrom(request_parameters, 1)

\* variant of DictUpdate: a key the dict already has keeps its value
DictSetDefault(result, parsed, keys) ==
    [k \in DOMAIN result \cup keys |-> IF k \in DOMAIN result THEN result[k] ELSE parsed[k]]

\* result.update(parsed): every key of parsed is written over result
RECURSIVE DictUpdate(_, _, _)
DictUpdate(result, parsed, keys) ==
    IF keys = {} THEN result
    ELSE LET k == CHOOSE x \in keys : TRUE
             written == [y \in DOMAIN result \cup {k} |->
                            IF y = k THEN parsed[k] ELSE result[y]]
         IN  DictUpdate(written, parsed, keys \ {k})

\* dict(raw_parameters): a new dict with the items of the argument
DictCopy(source) == [items |-> source, shared |-> FALSE]

\* consolidate_parameters, given what restx_parser.parse_args() returned:
\* the dict it returns, and the caller's raw_parameters as the call leaves it
consolidate_parameters(raw_parameters, parsed) ==
    LET result == DictCopy(raw_parameters)
        updated == DictUpdate(result.items, parsed, DOMAIN parsed)
    IN  [result |-> updated,
         raw_parameters |-> IF result.shared THEN updated ELSE raw_parameters]

\* variant of remove_empty_parameters: every key is kept
KeepEveryParameter(parameter_values) == parameter_values

remove_empty_parameters(parameter_values) ==
    LET kept == {key \in DOMAIN parameter_values : Truthy(parameter_values[key])}
    IN  [key \in kept |-> parameter_values[key]]

\* ------------------------------------------------- flask_restx.inputs types
\* variant of positive: any integer is accepted
positiveAnyInteger(value) ==
    IF PyInt(value).ok
    THEN [ok |-> TRUE, value |-> IntValue(PyInt(value).val)]
    ELSE [ok |-> FALSE, value |-> NoneValue]

\* inputs.positive: int(value), and a ValueError below 1
positive(value) ==
    LET parsed == PyInt(value)
    IN  IF parsed.ok /\ parsed.val >= 1
        THEN [ok |-> TRUE, value |-> IntValue(parsed.val)]
        ELSE [ok |-> FALSE, value |-> NoneValue]

\* inputs.regex('^.{1,max}$'): between 1 and max characters
regex(max, value) ==
    IF value.t = "str" /\ Len(value.v) >= 1 /\ Len(value.v) <= max
    THEN [ok |-> TRUE, value |-> value]
    ELSE [ok |-> FALSE, value |-> NoneValue]

\* inputs.regex('^\d{2}:\d{2}:\d{2}$')
time_regex(value) ==
    IF /\ value.t = "str"
       /\ Len(value.v) = 8
       /\ \A i \in {1, 2, 4, 5, 7, 8} : value.v[i] \in Digits
       /\ \A i \in {3, 6} : value.v[i] = ":"
    THEN [ok |-> TRUE, value |-> value]
    ELSE [ok |-> FALSE, value |-> NoneValue]

\* inputs.date_from_iso8601, for the calendar form YYYY-MM-DD
date_from_iso8601(value) ==
    IF /\ value.t = "str"
       /\ Len(value.v) = 10
       /\ \A i \in {1, 2, 3, 4, 6, 7, 9, 10} : value.v[i] \in Digits
       /\ \A i \in {5, 8} : value.v[i] = "-"
       /\ DecimalValue(SubSeq(value.v, 6, 7)) \in 1..12
       /\ DecimalValue(SubSeq(value.v, 9, 10)) \in 1..31
    THEN [ok |-> TRUE, value |-> DateValue(value.v)]
    ELSE [ok |-> FALSE, value |-> NoneValue]

Convert(type, value) ==
    CASE type.name = "positive" -> positive(value)
      [] type.name = "regex" -> regex(type.max, value)
      [] type.name = "time" -> time_regex(value)
      [] type.name = "date" -> date_from_iso8601(value)

Positive == [name |-> "positive", max |-> 0]
Regex(max) == [name |-> "regex", max |-> max]
TimeRegex == [name |-> "time", max |-> 0]
DateIso == [name |-> "date", max |-> 0]
Argument(name, type) == [name |-> name, type |-> type]

\* ------------------------------------------------------ resources.py routes
ListRoutes ==
    {"Artists", "Genres", "Releases", "Songs", "SongsWithArtists", "Sheets", "TrackTabs"}

ByIdRoutes ==
    {"ArtistById", "GenreById", "ReleaseById", "SongById", "SheetById", "TrackTabById"}

CombinedRoute == "CombinedArtistSongRelease"

Routes == ListRoutes \cup ByIdRoutes \cup {CombinedRoute}

\* the class attribute `parser` of a route: its arguments in declaration order
Parser(route) ==
    CASE route = "Artists" ->
            << Argument(<<"id">>, Positive),
               Argument(<<"country">>, Regex(32)),
               Argument(<<"name">>, Regex(64)),
               Argument(<<"year", "founded">>, Positive) >>
      [] route = "Genres" ->
            << Argument(<<"id">>, Positive),
               Argument(<<"name">>, Regex(64)) >>
      [] route = "Releases" ->
            << Argument(<<"id">>, Positive),
               Argument(<<"album", "kind">>, Regex(32)),
               Argument(<<"label">>, Regex(64)),
               Argument(<<"name">>, Regex(64)),
               Argument(<<"type">>, Regex(32)),
               Argument(<<"year">>, Positive) >>
      [] route \in {"Songs", "SongsWithArtists"} ->
            << Argument(<<"id">>, Positive),
               Argument(<<"name">>, Regex(64)),
               Argument(<<"original", "id">>, Positive),
               Argument(<<"release", "id">>, Positive) >>
      [] route = "Sheets" ->
            << Argument(<<"id">>, Positive),
               Argument(<<"bpm">>, Positive),
               Argument(<<"song", "id">>, Positive),
               Argument(<<"upload", "date">>, DateIso) >>
      [] route = "TrackTabs" ->
            << Argument(<<"id">>, Positive),
               Argument(<<"instrument">>, Regex(32)),
               Argument(<<"sheet", "id">>, Positive),
               Argument(<<"time", "start">>, TimeRegex),
               Argument(<<"tuning">>, Regex(64)) >>
      [] route = CombinedRoute ->
            << Argument(<<"substring">>, Regex(64)) >>
      [] OTHER -> << >>

\* the retriever class a route uses
Retriever(route) ==
    CASE route \in {"Artists", "ArtistById"} -> "ArtistRetriever"
      [] route \in {"Genres", "GenreById"} -> "GenreRetriever"
      [] route \in {"Releases", "ReleaseById"} -> "ReleaseRetriever"
      [] route \in {"Songs", "SongById"} -> "SongRetriever"
      [] route = "SongsWithArtists" -> "SongWithArtistsRetriever"
      [] route \in {"Sheets", "SheetById"} -> "SheetRetriever"
      [] route \in {"TrackTabs", "TrackTabById"} -> "TrackTabRetriever"

\* the name of the path parameter of a single-item route
PathParameter(route) ==
    CASE route = "ArtistById" -> <<"artist", "id">>
      [] route = "GenreById" -> <<"genre", "id">>
      [] route = "ReleaseById" -> <<"release", "id">>
      [] route = "SongById" -> <<"song", "id">>
      [] route = "SheetById" -> <<"sheet", "id">>
      [] route = "TrackTabById" -> <<"tracktab", "id">>

\* the retrievers of the combined search, in the order the dict literal
\* evaluates them, and the key each result is returned under
CombinedRetrievers == <<"ArtistRetriever", "SongRetriever", "ReleaseRetriever">>
CombinedKeys == <<"artists", "songs", "releases">>

\* RequestParser.parse_args(): each argument in declaration order; a value
\* present in the query string is converted by the argument's type and the
\* first one that does not convert aborts the request with 400 naming that
\* argument; an argument absent from the query string is None
RECURSIVE ParseFrom(_, _, _, _)
ParseFrom(arguments, args, i, namespace) ==
    IF i > Len(arguments) THEN [kind |-> "ok", namespace |-> namespace]
    ELSE LET arg == arguments[i]
             found == arg.name \in DOMAIN args
             converted == IF found THEN Convert(arg.type, args[arg.name])
                          ELSE [ok |-> TRUE, value |-> NoneValue]
             stored == [k \in DOMAIN namespace \cup {arg.name} |->
                           IF k = arg.name THEN converted.value ELSE namespace[k]]
         IN  IF ~converted.ok
             THEN [kind |-> "abort", code |-> 400,
                   message |-> "Input payload validation failed",
                   errors |-> {arg.name}]
             ELSE ParseFrom(arguments, args, i + 1, stored)

parse_args(route, args) == ParseFrom(Parser(route), args, 1, << >>)

\* ------------------------------------------------------------------- inputs
Alphabet == {"-", "0", "1", "a", " "}

\* every text over Alphabet of lo to hi characters
Texts(lo, hi) == UNION { [1..n -> Alphabet] : n \in lo..hi }

\* a path segment is never empty: the route would not match
PathIds == { StrValue(s) : s \in Texts(1, MaxIdLen) }

LongText == [i \in 1..65 |-> "a"]
DateText == <<"2", "0", "2", "0", "-", "0", "1", "-", "3", "1">>
TimeText == <<"0", "0", ":", "0", "1", ":", "3", "0">>

\* the query-string values tried on a route
QueryValues(route) ==
    { StrValue(s) : s \in
        {<< >>, <<" ">>, <<"a">>, <<"0">>, <<"1">>, <<"-", "1">>}
        \cup (IF route = "Sheets" THEN {DateText} ELSE {})
        \cup (IF route = "TrackTabs" THEN {TimeText} ELSE {})
        \cup (IF route = CombinedRoute THEN {LongText} ELSE {}) }

ArgumentNames(route) == { Parser(route)[i].name : i \in 1..Len(Parser(route)) }

\* the query-string keys tried on a route: the declared ones and keys no
\* parser of the route declares
QueryKeys(route) ==
    ArgumentNames(route) \cup {<<"sort", "by">>, <<"artist", "id">>}
        \cup (IF route = CombinedRoute THEN {<<"name">>, <<"id">>} ELSE {})

\* request.args: at most MaxParams keys, one value each
QueryStrings(route) ==
    UNION { [keys -> QueryValues(route)] :
            keys \in { K \in SUBSET QueryKeys(route) : Cardinality(K) <= MaxParams } }

Records == {"r1", "r2"}

\* what get_objects may return: the records are distinct rows
Retrievals ==
    { seq \in UNION { [1..n -> Records] : n \in 0..MaxRecords } :
        \A i, j \in 1..Len(seq) : i # j => seq[i] # seq[j] }

\* -------------------------------------------------------------------- state
VARIABLES
    pc,            \* "idle", "handling", "backend" (inside get_objects), "done"
    route,         \* the resource class serving the request
    args,          \* request.args
    path_id,       \* the path segment of a single-item route
    morphed_args,  \* the filter mapping the handler built
    events,        \* validations and get_objects calls of the request, in order
    retrieved,     \* what the get_objects calls of the request returned, in order
    response,      \* how the request ended
    call           \* the last direct call of a util.py function (UtilSpec)

vars == <<pc, route, args, path_id, morphed_args, events, retrieved, response, call>>

NoDict == << >>
NoResponse == [outcome |-> "none"]
NoCall == [fn |-> "none"]

Validated(op) == [op |-> op, retriever |-> "", filters |-> NoDict]
GetObjects(retriever, filters) ==
    [op |-> "get_objects", retriever |-> retriever, filters |-> filters]

Returned(body) == [outcome |-> "return", status |-> 200, body |-> body]
Aborted(failure) ==
    [outcome |-> "abort", status |-> failure.code, errors |-> failure.errors]
Raised(exc, where) == [outcome |-> "raise", exc |-> exc, where |-> where]

\* the bodies a handler returns
ListBody(records) == [t |-> "list", v |-> records]
RecordBody(record) == [t |-> "record", v |-> record]
EmptyDict == [t |-> "dict", v |-> NoDict]
NoneBody == [t |-> "none", v |-> NoDict]

\* the get_objects calls among the events
Calls == SelectSeq(events, LAMBDA e : e.op = "get_objects")

\* a handler runs up to its first get_objects call or to its end: what it has
\* done by then
Step(nextpc, query, filters, happened, outcome) ==
    [pc |-> nextpc, args |-> query, morphed_args |-> filters, events |-> happened,
     response |-> outcome]

\* variant of ListGet: the backend is called before the arguments are parsed
ListGetCallFirst(r, query) ==
    Step("backend", query, remove_empty_parameters(query),
         <<GetObjects(Retriever(r), remove_empty_parameters(query)),
           Validated("parse_args")>>,
         NoResponse)

\* ---- list routes: Artists.get, Genres.get, Releases.get, Songs.get,
\* SongsWithArtists.get, Sheets.get, TrackTabs.get
ListGet(r, query) ==
    LET parsed == parse_args(r, query)
    IN  IF parsed.kind = "abort"
        THEN Step("done", query, NoDict, <<Validated("parse_args")>>, Aborted(parsed))
        ELSE LET consolidated == consolidate_parameters(query, parsed.namespace)
                 filters == remove_empty_parameters(consolidated.result)
             IN  Step("backend", consolidated.raw_parameters, filters,
                      <<Validated("parse_args"), GetObjects(Retriever(r), filters)>>,
                      NoResponse)

\* ---- single-item routes: ArtistById.get, GenreById.get, ReleaseById.get,
\* SongById.get, SheetById.get, TrackTabById.get
ByIdFilters(id) == [k \in {<<"id">>} |-> IntValue(PyInt(id).val)]

ByIdGet(r, id) ==
    LET guard == abort_on_invalid_parameters(<<[key |-> PathParameter(r), value |-> id]>>)
    IN  CASE guard.kind = "abort" ->
                Step("done", NoDict, NoDict, <<Validated("guard")>>, Aborted(guard))
          [] guard.kind = "raise" ->
                Step("done", NoDict, NoDict, <<Validated("guard")>>,
                     Raised(guard.exc, "abort_on_invalid_parameters"))
          [] OTHER ->
                Step("backend", NoDict, ByIdFilters(id),
                     <<Validated("guard"), GetObjects(Retriever(r), ByIdFilters(id))>>,
                     NoResponse)

\* variant of ByIdBody: the last record found is returned, not the first
ByIdBodyLast(records) ==
    IF Len(records) > 0 THEN RecordBody(records[Len(records)]) ELSE EmptyDict

\* `if retrieved := ...: return retrieved[0]` / `else: return {}`
ByIdBody(records) ==
    IF Len(records) > 0 THEN RecordBody(records[1]) ELSE EmptyDict

\* ---- CombinedArtistSongRelease.get
\* morphed_args.pop(key): the value removed and the dict without the key
DictPop(d, key) ==
    [value |-> d[key], dict |-> [k \in DOMAIN d \ {key} |-> d[k]]]

\* d[key] = value
DictSet(d, key, value) ==
    [k \in DOMAIN d \cup {key} |-> IF k = key THEN value ELSE d[k]]

\* substring_target = 'name'
substring_target == <<"n", "a", "m", "e">>
SubstringTargetKey == <<"name">>

\* f'len({substring_target})!asc'
SortDirective ==
    StrValue(<<"l", "e", "n", "(">> \o substring_target \o <<")", "!", "a", "s", "c">>)

\* logging.info(...): resources.py binds getLogger and logger, never the
\* name `logging`, so evaluating the call raises NameError
LoggingInfo == [kind |-> "raise", exc |-> "NameError"]

\* variant of RenameSubstring: the value is copied and `substring` stays
RenameKeepingSubstring(morphed) ==
    DictSet(morphed, SubstringTargetKey, morphed[<<"substring">>])

\* morphed_args[substring_target] = morphed_args.pop('substring')
RenameSubstring(morphed) ==
    LET popped == DictPop(morphed, <<"substring">>)
    IN  DictSet(popped.dict, SubstringTargetKey, popped.value)

\* morphed_args['sort_by'] = f'len({substring_target})!asc'
SetSortBy(morphed) == DictSet(morphed, <<"sort", "by">>, SortDirective)

CombinedGet(query) ==
    LET parsed == parse_args(CombinedRoute, query)
    IN  IF parsed.kind = "abort"
        THEN Step("done", query, NoDict, <<Validated("parse_args")>>, Aborted(parsed))
        ELSE LET consolidated == consolidate_parameters(query, parsed.namespace)
                 renamed == RenameSubstring(consolidated.result)
             IN  IF ~Truthy(renamed[SubstringTargetKey])
                 THEN Step("done", consolidated.raw_parameters, renamed,
                           <<Validated("parse_args")>>,
                           IF LoggingInfo.kind = "raise"
                           THEN Raised(LoggingInfo.exc, "logging.info")
                           ELSE Returned(NoneBody))
                 ELSE Step("backend", consolidated.raw_parameters, SetSortBy(renamed),
                           <<Validated("parse_args"),
                             GetObjects(CombinedRetrievers[1], SetSortBy(renamed))>>,
                           NoResponse)

\* the dict literal of the return statement, once the n-th get_objects call
\* has returned `results` so far: the next call, or the finished mapping
CombinedBody(results) ==
    [t |-> "dict",
     v |-> [k \in {CombinedKeys[i] : i \in 1..Len(results)} |->
              LET i == CHOOSE j \in 1..Len(results) : CombinedKeys[j] = k
              IN  results[i]]]

\* variant of CombinedResume: the mapping is returned once two calls returned
CombinedResumePartial(filters, results) ==
    IF Len(results) < 2
    THEN [pc |-> "backend",
          events |-> <<GetObjects(CombinedRetrievers[Len(results) + 1], filters)>>,
          response |-> NoResponse]
    ELSE [pc |-> "done", events |-> << >>, response |-> Returned(CombinedBody(results))]

CombinedResume(filters, results) ==
    IF Len(results) < Len(CombinedRetrievers)
    THEN [pc |-> "backend",
          events |-> <<GetObjects(CombinedRetrievers[Len(results) + 1], filters)>>,
          response |-> NoResponse]
    ELSE [pc |-> "done", events |-> << >>, response |-> Returned(CombinedBody(results))]

\* an exception out of get_objects leaves the handler
BackendFailure(retriever) == Raised("BackendFailure", retriever)

\* ------------------------------------------------------------------ actions
Idle ==
    /\ pc = "idle" /\ route = "" /\ args = NoDict /\ path_id = NoneValue
    /\ morphed_args = NoDict /\ events = << >> /\ retrieved = << >>
    /\ response = NoResponse

Init == Idle /\ call = NoCall

\* the framework routes a request to a list route or to the combined search
ReceiveQuery ==
    /\ pc = "idle"
    /\ \E r \in ListRoutes \cup {CombinedRoute} : \E query \in QueryStrings(r) :
          /\ route' = r
          /\ args' = query
    /\ pc' = "handling"
    /\ UNCHANGED <<path_id, morphed_args, events, retrieved, response, call>>

\* the framework routes a request to a single-item route
ReceivePath ==
    /\ pc = "idle"
    /\ \E r \in ByIdRoutes : \E id \in PathIds :
          /\ route' = r
          /\ path_id' = id
    /\ pc' = "handling"
    /\ UNCHANGED <<args, morphed_args, events, retrieved, response, call>>

Take(step) ==
    /\ pc' = step.pc
    /\ args' = step.args
    /\ morphed_args' = step.morphed_args
    /\ events' = step.events
    /\ response' = step.response
    /\ UNCHANGED <<route, path_id, retrieved, call>>

ListHandle ==
    /\ pc = "handling" /\ route \in ListRoutes
    /\ Take(ListGet(route, args))

ByIdHandle ==
    /\ pc = "handling" /\ route \in ByIdRoutes
    /\ Take(ByIdGet(route, path_id))

CombinedHandle ==
    /\ pc = "handling" /\ route = CombinedRoute
    /\ Take(CombinedGet(args))

\* get_objects returns to a list route, which returns the sequence as it is
ListReturn ==
    /\ pc = "backend" /\ route \in ListRoutes
    /\ \E records \in Retrievals :
          /\ retrieved' = Append(retrieved, records)
          /\ response' = Returned(ListBody(records))
    /\ pc' = "done"
    /\ UNCHANGED <<route, args, path_id, morphed_args, events, call>>

ByIdReturn ==
    /\ pc = "backend" /\ route \in ByIdRoutes
    /\ \E records \in Retrievals :
          /\ retrieved' = Append(retrieved, records)
          /\ response' = Returned(ByIdBody(records))
    /\ pc' = "done"
    /\ UNCHANGED <<route, args, path_id, morphed_args, events, call>>

CombinedReturn ==
    /\ pc = "backend" /\ route = CombinedRoute
    /\ \E records \in Retrievals :
          LET resumed == CombinedResume(morphed_args, Append(retrieved, records))
          IN  /\ retrieved' = Append(retrieved, records)
              /\ pc' = resumed.pc
              /\ events' = events \o resumed.events
              /\ response' = resumed.response
    /\ UNCHANGED <<route, args, path_id, morphed_args, call>>

\* get_objects raises: no handler catches it
BackendRaise ==
    /\ pc = "backend"
    /\ response' = BackendFailure(events[Len(events)].retriever)
    /\ pc' = "done"
    /\ UNCHANGED <<route, args, path_id, morphed_args, events, retrieved, call>>

\* the response is sent; nothing of the request is kept
Respond ==
    /\ pc = "done"
    /\ pc' = "idle" /\ route' = "" /\ args' = NoDict /\ path_id' = NoneValue
    /\ morphed_args' = NoDict /\ events' = << >> /\ retrieved' = << >>
    /\ response' = NoResponse
    /\ UNCHANGED call

Next ==
    \/ ReceiveQuery
    \/ ReceivePath
    \/ ListHandle
    \/ ByIdHandle
    \/ CombinedHandle
    \/ ListReturn
    \/ ByIdReturn
    \/ CombinedReturn
    \/ BackendRaise
    \/ Respond

Spec == Init /\ [][Next]_vars

\* ------------------------------------------- util.py functions called alone
UtilKeys == {<<"id">>, <<"artist", "id">>, <<"name">>, <<"sort", "by">>}

RawValues == { StrValue(s) : s \in {<< >>, <<"a">>, <<"0">>, <<"1">>, <<"-", "1">>} }

ParsedValues == {NoneValue, IntValue(1), StrValue(<< >>), StrValue(<<"a">>)}

\* dicts of at most MaxParams keys
Dicts(keys, values) ==
    UNION { [K -> values] : K \in { K \in SUBSET keys : Cardinality(K) <= MaxParams } }

\* dicts of at most MaxParams keys, in every insertion order
OrderedDicts(keys, values) ==
    { seq \in UNION { [1..n -> [key : keys, value : values]] : n \in 0..MaxParams } :
        \A i, j \in 1..Len(seq) : i # j => seq[i].key # seq[j].key }

CallGuard ==
    /\ call = NoCall
    /\ \E request_parameters \in OrderedDicts(UtilKeys, RawValues \cup {IntValue(2)}) :
          call' = [fn |-> "abort_on_invalid_parameters",
                   request_parameters |-> request_parameters,
                   outcome |-> abort_on_invalid_parameters(request_parameters)]
    /\ UNCHANGED <<pc, route, args, path_id, morphed_args, events, retrieved, response>>

CallConsolidate ==
    /\ call = NoCall
    /\ \E raw_parameters \in Dicts(UtilKeys, RawValues) :
       \E parsed \in Dicts(UtilKeys, ParsedValues) :
          call' = [fn |-> "consolidate_parameters",
                   raw_parameters |-> raw_parameters,
                   parsed |-> parsed,
                   returned |-> consolidate_parameters(raw_parameters, parsed)]
    /\ UNCHANGED <<pc, route, args, path_id, morphed_args, events, retrieved, response>>

CallRemoveEmpty ==
    /\ call = NoCall
    /\ \E parameter_values \in Dicts(UtilKeys, RawValues \cup ParsedValues) :
          call' = [fn |-> "remove_empty_parameters",
                   parameter_values |-> parameter_values,
                   returned |-> remove_empty_parameters(parameter_values)]
    /\ UNCHANGED <<pc, route, args, path_id, morphed_args, events, retrieved, response>>

\* the caller is done with what the function returned
CallOver ==
    /\ call # NoCall
    /\ call' = NoCall
    /\ UNCHANGED <<pc, route, args, path_id, morphed_args, events, retrieved, response>>

UtilNext ==
    \/ CallGuard
    \/ CallConsolidate
    \/ CallRemoveEmpty
    \/ CallOver

UtilSpec == Init /\ [][UtilNext]_vars

\* =================================================================== claims
\* a key the claims call identifier-suffixed: it ends in `_id` or is `id`
IsIdentifierKey(key) == key[Len(key)] = "id"

\* the text parses as an integer >= 1
IsPositiveInteger(value) == PyInt(value).ok /\ PyInt(value).val >= 1

\* an empty string or an absent value
IsEmpty(value) == value.t = "none" \/ (value.t = "str" /\ Len(value.v) = 0)

Handled == pc \in {"backend", "done"}

\* ---- C1 (as claimed): on a single-item route the Identifier Guard lets the
\* request through if and only if the path identifier parses as an integer
\* >= 1, and every other identifier ends the request in the structured 400
\* validation error.
C1_GuardRejectsWith400 ==
    (route \in ByIdRoutes /\ Handled) =>
        IF IsPositiveInteger(path_id)
        THEN Len(Calls) = 1
        ELSE /\ Len(Calls) = 0
             /\ response.outcome = "abort"
             /\ response.status = 400

\* ---- C2 (as claimed): when `substring` is absent, empty or only blanks the
\* combined search returns None as its normal result and calls no backend.
EmptyAfterTrimming ==
    \/ <<"substring">> \notin DOMAIN args
    \/ Len(Strip(args[<<"substring">>].v)) = 0

C2_EmptySubstringReturnsNone ==
    (route = CombinedRoute /\ Handled /\ EmptyAfterTrimming) =>
        /\ Len(Calls) = 0
        /\ response.outcome = "return"
        /\ response.body.t = "none"

\* ---- C6 (as claimed): when the Identifier Guard aborts, the 400 payload has
\* one "Invalid {key}: {value}. {key} must be a positive integer" entry for
\* every identifier-suffixed key of the input mapping, valid ones included,
\* and no entry for a key without the identifier suffix.
C6_PayloadNamesIdentifierKeysOnly ==
    (call.fn = "abort_on_invalid_parameters" /\ call.outcome.kind = "abort") =>
        LET given == call.request_parameters
        IN  call.outcome.errors =
                { [key |-> given[i].key,
                   text |-> <<"Invalid ", given[i].key, ": ", given[i].value, ". ",
                              given[i].key, " must be a positive integer">>] :
                  i \in { j \in 1..Len(given) : IsIdentifierKey(given[j].key) } }

FailsValidation ==
    IF route \in ByIdRoutes THEN ~IsPositiveInteger(path_id)
    ELSE \E i \in 1..Len(Parser(route)) :
            /\ Parser(route)[i].name \in DOMAIN args
            /\ ~Convert(Parser(route)[i].type, args[Parser(route)[i].name]).ok

\* ---- C8: in every request the validation (parse_args on list and combined
\* routes, the Identifier Guard on single-item routes) comes before the first
\* get_objects call and none comes after one; a request that fails validation
\* makes no get_objects call.
C8_ValidationBeforeBackend ==
    /\ \A i \in 1..Len(events) :
          events[i].op = "get_objects" =>
              /\ i > 1
              /\ events[1].op \in {"parse_args", "guard"}
              /\ \A j \in i..Len(events) : events[j].op = "get_objects"
    /\ (Handled /\ FailsValidation) => (pc = "done" /\ Len(Calls) = 0)

\* `year_founded=a` on the artists list: refused with 400, no backend called
C8_SchemaViolationRefused ==
    /\ route = "Artists" /\ pc = "done"
    /\ <<"year", "founded">> \in DOMAIN args
    /\ args[<<"year", "founded">>].v = <<"a">>
    /\ response.outcome = "abort" /\ response.status = 400
    /\ Len(Calls) = 0

\* ---- C10: the combined search calls the Artist, Song and Release backends
\* in that order, each after the one before has returned; it returns the
\* mapping only after all three returned; a failing call fails the request
\* with that failure, no partial mapping is returned and no call is repeated.
C10_NoPartialResult ==
    route = CombinedRoute =>
        /\ Len(Calls) <= Len(CombinedRetrievers)
        /\ \A i \in 1..Len(Calls) : Calls[i].retriever = CombinedRetrievers[i]
        /\ Len(Calls) <= Len(retrieved) + 1
        /\ (response.outcome = "return" /\ response.body.t = "dict") =>
                /\ Len(retrieved) = 3
                /\ DOMAIN response.body.v = {"artists", "songs", "releases"}
        /\ (pc = "done" /\ Len(retrieved) < Len(Calls)) =>
                /\ response.outcome = "raise"
                /\ response.exc = "BackendFailure"
                /\ response.where = Calls[Len(Calls)].retriever
        /\ (pc = "done" /\ Len(Calls) > 0 /\ Len(retrieved) = Len(Calls)) =>
                Len(Calls) = 3

\* the Song backend failed after the Artist backend returned
C10_SecondCallFailed ==
    /\ route = CombinedRoute /\ pc = "done"
    /\ Len(Calls) = 2 /\ Len(retrieved) = 1
    /\ response.outcome = "raise" /\ response.where = "SongRetriever"

\* ---- C9: consolidate_parameters returns a mapping over the union of the
\* keys of both arguments in which every key of the schema-parsed mapping
\* holds the schema-parsed value, also when that value is None or empty and
\* the raw one is not, and every other key holds the raw value; the raw
\* mapping passed in is left as it was.
C9_ParsedValuesWin ==
    call.fn = "consolidate_parameters" =>
        LET raw == call.raw_parameters
            parsed == call.parsed
            result == call.returned.result
        IN  /\ DOMAIN result = DOMAIN raw \cup DOMAIN parsed
            /\ \A k \in DOMAIN parsed : result[k] = parsed[k]
            /\ \A k \in DOMAIN raw \ DOMAIN parsed : result[k] = raw[k]
            /\ call.returned.raw_parameters = raw

\* a parsed None written over a non-empty raw value, next to a raw-only key
C9_EmptyParsedOverRaw ==
    /\ call.fn = "consolidate_parameters"
    /\ \E k \in DOMAIN call.raw_parameters \cap DOMAIN call.parsed :
          /\ call.parsed[k] = NoneValue
          /\ Truthy(call.raw_parameters[k])
          /\ call.returned.result[k] = NoneValue
    /\ DOMAIN call.raw_parameters \ DOMAIN call.parsed # {}

\* the filter mapping the combined search is to hand to each backend
\* according to C3 as amended: the raw query parameters other than
\* `substring`, with `name` and `sort_by` written over them
ExpectedSharedFilter ==
    [k \in (DOMAIN args \ {<<"substring">>}) \cup {<<"name">>, <<"sort", "by">>} |->
        IF k = <<"name">> THEN args[<<"substring">>]
        ELSE IF k = <<"sort", "by">>
             THEN StrValue(<<"l", "e", "n", "(", "n", "a", "m", "e", ")",
                             "!", "a", "s", "c">>)
             ELSE args[k]]

SearchableSubstring ==
    /\ <<"substring">> \in DOMAIN args
    /\ Len(args[<<"substring">>].v) \in 1..64

\* ---- C3 (as claimed): for every non-empty substring s each of the three
\* backends receives exactly {name: s, sort_by: "len(name)!asc"} and no
\* other key.
C3_SharedFilterIsExact ==
    (route = CombinedRoute /\ <<"substring">> \in DOMAIN args) =>
        \A i \in 1..Len(Calls) :
            /\ DOMAIN Calls[i].filters = {<<"name">>, <<"sort", "by">>}
            /\ Calls[i].filters[<<"name">>] = args[<<"substring">>]

\* ---- C3 (amended): for every substring s of 1 to 64 characters the
\* combined search calls the Artist, Song and Release backends, each at most
\* once and all three when none fails, with one and the same mapping: the raw
\* query parameters other than `substring` with name = s and
\* sort_by = "len(name)!asc" written over them (so exactly {name, sort_by}
\* when the query string has no other key); the response holds the three
\* results as returned.
C3_SharedFilter ==
    (route = CombinedRoute /\ Handled /\ SearchableSubstring) =>
        /\ Len(Calls) >= 1
        /\ \A i \in 1..Len(Calls) :
              /\ Calls[i].filters = ExpectedSharedFilter
              /\ Calls[i].retriever =
                    <<"ArtistRetriever", "SongRetriever", "ReleaseRetriever">>[i]
        /\ (DOMAIN args = {<<"substring">>}) =>
                DOMAIN Calls[1].filters = {<<"name">>, <<"sort", "by">>}
        /\ (pc = "done" /\ response.outcome = "return") =>
                /\ Len(Calls) = 3
                /\ response.status = 200
                /\ response.body.v = [k \in {"artists", "songs", "releases"} |->
                        CASE k = "artists" -> retrieved[1]
                          [] k = "songs" -> retrieved[2]
                          [] k = "releases" -> retrieved[3]]

\* a finished search whose query string carried another key, which all three
\* backends received
C3_ExtraKeyForwarded ==
    /\ route = CombinedRoute /\ pc = "done" /\ response.outcome = "return"
    /\ Len(Calls) = 3
    /\ <<"artist", "id">> \in DOMAIN args
    /\ \A i \in 1..3 : <<"artist", "id">> \in DOMAIN Calls[i].filters

\* ---- C4 (as claimed): every identifier-suffixed key of a filter mapping
\* handed to a backend holds a positive integer.
C4_IdentifiersArePositive ==
    \A i \in 1..Len(Calls) : \A k \in DOMAIN Calls[i].filters :
        IsIdentifierKey(k) =>
            /\ Calls[i].filters[k].t = "int"
            /\ Calls[i].filters[k].v >= 1

\* ---- C4 (amended): an identifier-suffixed key of a filter mapping handed
\* to a backend holds a positive integer when the route's parser declares the
\* key or the route is a single-item route; a request that gives such a key
\* another value ends without a backend call (with the 400 error on list and
\* combined routes). An identifier-suffixed query key the route does not
\* declare is handed to the backend with its raw text, not validated.
C4_DeclaredIdentifiersArePositive ==
    /\ \A i \in 1..Len(Calls) : \A k \in DOMAIN Calls[i].filters :
          IsIdentifierKey(k) =>
              IF route \in ByIdRoutes \/ k \in ArgumentNames(route)
              THEN /\ Calls[i].filters[k].t = "int"
                   /\ Calls[i].filters[k].v >= 1
              ELSE /\ k \in DOMAIN args
                   /\ Calls[i].filters[k] = args[k]
    /\ (/\ Handled
        /\ route \notin ByIdRoutes
        /\ \E k \in ArgumentNames(route) \cap DOMAIN args :
              IsIdentifierKey(k) /\ ~IsPositiveInteger(args[k])) =>
            /\ Len(Calls) = 0
            /\ response.outcome = "abort"
            /\ response.status = 400
    /\ (Handled /\ route \in ByIdRoutes /\ ~IsPositiveInteger(path_id)) =>
            (Len(Calls) = 0 /\ response.outcome \in {"abort", "raise"})

\* the songs list called with release_id=1: the backend receives the integer
C4_DeclaredIdentifierParsed ==
    /\ route = "Songs" /\ pc = "backend"
    /\ <<"release", "id">> \in DOMAIN args
    /\ args[<<"release", "id">>] = StrValue(<<"1">>)
    /\ Calls[1].filters[<<"release", "id">>] = IntValue(1)

\* ---- C5 (as claimed): on every route no key of a filter mapping handed to
\* a backend holds an empty string or None.
C5_NoEmptyValueReachesBackend ==
    \A i \in 1..Len(Calls) : \A k \in DOMAIN Calls[i].filters :
        ~IsEmpty(Calls[i].filters[k])

\* ---- C5 (amended): on the list routes and the single-item routes no key of
\* a filter mapping handed to a backend holds an empty string or None. On the
\* combined search `name` and `sort_by` are not empty, but
\* remove_empty_parameters is not applied there: a query key other than
\* `substring` sent with an empty value is handed to the backends as it is.
C5_NoEmptyValueOnListRoutes ==
    \A i \in 1..Len(Calls) : \A k \in DOMAIN Calls[i].filters :
        IsEmpty(Calls[i].filters[k]) =>
            /\ route = CombinedRoute
            /\ k \notin {<<"substring">>, <<"name">>, <<"sort", "by">>}
            /\ k \in DOMAIN args
            /\ Calls[i].filters[k] = args[k]

\* a list route called with an empty-valued key its parser does not declare
\* and without a declared one: neither reaches the backend
C5_EmptyValuesDropped ==
    /\ route \in ListRoutes /\ pc = "backend"
    /\ <<"sort", "by">> \in DOMAIN args
    /\ IsEmpty(args[<<"sort", "by">>])
    /\ <<"sort", "by">> \notin DOMAIN Calls[1].filters
    /\ <<"id">> \notin DOMAIN Calls[1].filters

=============================================================================
